---- MODULE Spec2Model ----
(***************************************************************************)
(* A model of dns-domain-expiration-checker.py (version 9.1).              *)
(*                                                                         *)
(* The program is a Python 2 script (it imports email.MIMEMultipart, which *)
(* exists in Python 2 only), so Python 2 semantics are modelled: a str is  *)
(* a sequence of one-character strings, and an int compared with a str by  *)
(* "<" is smaller (CPython 2 orders numbers before every other type).      *)
(*                                                                         *)
(* Python values carry their type: [t |-> "int", v |-> n],                 *)
(* [t |-> "str", v |-> chars], [t |-> "datetime", days |-> d, secs |-> s]. *)
(***************************************************************************)
EXTENDS Integers, Sequences, FiniteSets, TLC

VARIABLES
    pc,               \* position in main() (or in the function under test)
    conf_options,     \* the dict returned by processcli()
    domainfile,       \* the lines of the file opened at line 208
    lineno,           \* number of lines of the file the for loop has read
    now,              \* the wall clock, what datetime.now() returns
    dateutil_legacy,  \* which python-dateutil is installed (see dateutil_parse)
    whois_data,       \* the text the last whois child process printed
    domainname,       \* main's local
    expiration_days,  \* main's local: the threshold, a str in batch mode
    expiration_date,  \* main's local
    registrar,        \* main's local
    days_remaining,   \* main's local
    exit_status,      \* the process's exit status once it has ended
    raised,           \* the exception that ended the process, or "None"
    events            \* what the run has done so far, in order

vars == << pc, conf_options, domainfile, lineno, now, dateutil_legacy,
           whois_data, domainname, expiration_days, expiration_date,
           registrar, days_remaining, exit_status, raised, events >>

----------------------------------------------------------------------------
(* Bounds of the model. *)

MaxWhoisLines == 2   \* lines of a WHOIS answer in SpecParse
MaxFileLines == 2    \* lines of the domain file
MaxDayOffset == 2    \* days around "now" the evaluator is tried on

----------------------------------------------------------------------------
(* Python values. *)

PyInt(n) == [t |-> "int", v |-> n]
PyStr(s) == [t |-> "str", v |-> s]
PyDatetime(d, s) == [t |-> "datetime", days |-> d, secs |-> s]
PyNone == [t |-> "NoneType"]

SecondsPerDay == 24 * 60 * 60

----------------------------------------------------------------------------
(* The module-level tables. *)

S_RegistryExpiryDate == <<"R","e","g","i","s","t","r","y"," ","E","x","p","i","r","y"," ","D","a","t","e",":">>
S_Expiration == <<"E","x","p","i","r","a","t","i","o","n",":">>
S_DomainExpirationDate == <<"D","o","m","a","i","n"," ","E","x","p","i","r","a","t","i","o","n"," ","D","a","t","e">>
S_RegistrarRegistrationExpirationDate == <<"R","e","g","i","s","t","r","a","r"," ","R","e","g","i","s","t","r","a","t","i","o","n"," ","E","x","p","i","r","a","t","i","o","n"," ","D","a","t","e",":">>
S_expire == <<"e","x","p","i","r","e",":">>
S_expires == <<"e","x","p","i","r","e","s",":">>
S_ExpiryDate == <<"E","x","p","i","r","y"," ","d","a","t","e">>
S_Registrar == <<"R","e","g","i","s","t","r","a","r",":">>
S_Unknown == <<"U","n","k","n","o","w","n">>
S_Placeholder == <<"0","0","/","0","0","/","0","0"," ","0","0",":","0","0",":","0","0">>

EXPIRE_STRINGS == << S_RegistryExpiryDate,
                     S_Expiration,
                     S_DomainExpirationDate,
                     S_RegistrarRegistrationExpirationDate,
                     S_expire,
                     S_expires,
                     S_ExpiryDate >>

REGISTRAR_STRINGS == << S_Registrar >>

----------------------------------------------------------------------------
(* str methods, on sequences of characters. *)

\* the characters str.strip() and str.split() drop (the vertical tab, which
\* has no escape here, is left out)
Whitespace == {" ", "\t", "\n", "\r", "\f"}

\* needle in hay
Contains(hay, needle) ==
    \/ needle = <<>>
    \/ \E i \in 1..(Len(hay) - Len(needle) + 1) :
          /\ hay[i] = needle[1]
          /\ SubSeq(hay, i, i + Len(needle) - 1) = needle

\* the indices at which needle starts in hay
Occurrences(hay, needle) ==
    { i \in 1..(Len(hay) - Len(needle) + 1) :
        /\ hay[i] = needle[1]
        /\ SubSeq(hay, i, i + Len(needle) - 1) = needle }

Least(S) == CHOOSE i \in S : \A j \in S : i <= j

\* hay.find(needle) for a needle that is not empty, 1-based; 0 when absent
Find(hay, needle) ==
    IF Occurrences(hay, needle) = {} THEN 0 ELSE Least(Occurrences(hay, needle))

\* s.partition(sep): <<head, sep, tail>> around the first sep, or <<s, "", "">>
partition(s, sep) ==
    LET i == Find(s, sep)
    IN  IF i = 0
        THEN << s, <<>>, <<>> >>
        ELSE << SubSeq(s, 1, i - 1), sep, SubSeq(s, i + Len(sep), Len(s)) >>

\* s.split(sep) with a separator: the pieces between non-overlapping seps
RECURSIVE split_sep(_, _)
split_sep(s, sep) ==
    LET i == Find(s, sep)
    IN  IF i = 0
        THEN << s >>
        ELSE << SubSeq(s, 1, i - 1) >> \o split_sep(SubSeq(s, i + Len(sep), Len(s)), sep)

RECURSIVE lstrip(_)
lstrip(s) ==
    IF s # <<>> /\ Head(s) \in Whitespace THEN lstrip(Tail(s)) ELSE s

RECURSIVE rstrip(_)
rstrip(s) ==
    IF s # <<>> /\ s[Len(s)] \in Whitespace
    THEN rstrip(SubSeq(s, 1, Len(s) - 1))
    ELSE s

strip(s) == rstrip(lstrip(s))

\* the first index of s that holds a character of set; Len(s) + 1 when there
\* is none
FirstIn(s, set) ==
    Least({ i \in 1..Len(s) : s[i] \in set } \cup { Len(s) + 1 })

\* the pieces of t, which starts with no whitespace, given the end n of its
\* first run of non-whitespace characters
RECURSIVE split_ws(_)
SplitAt(t, n) == << SubSeq(t, 1, n - 1) >> \o split_ws(SubSeq(t, n, Len(t)))

\* s.split(): the maximal runs of non-whitespace characters
split_ws(s) ==
    IF lstrip(s) = <<>>
    THEN <<>>
    ELSE SplitAt(lstrip(s), FirstIn(lstrip(s), Whitespace))

\* the lines of s given the index i of its first line break: "\r\n" is one
\* break
RECURSIVE splitlines(_)
BreakAt(s, i) ==
    << SubSeq(s, 1, i - 1) >>
        \o splitlines(SubSeq(s, (IF i < Len(s) /\ s[i] = "\r" /\ s[i + 1] = "\n"
                                 THEN i + 2 ELSE i + 1), Len(s)))

\* s.splitlines(): "\n", "\r" and "\r\n" end a line; no empty last line
splitlines(s) ==
    IF s = <<>>
    THEN <<>>
    ELSE IF \E i \in 1..Len(s) : s[i] \in {"\n", "\r"}
         THEN BreakAt(s, FirstIn(s, {"\n", "\r"}))
         ELSE << s >>

Digits == [c \in {"0","1","2","3","4","5","6","7","8","9"} |->
             CASE c = "0" -> 0 [] c = "1" -> 1 [] c = "2" -> 2 [] c = "3" -> 3
               [] c = "4" -> 4 [] c = "5" -> 5 [] c = "6" -> 6 [] c = "7" -> 7
               [] c = "8" -> 8 [] c = "9" -> 9]

IsDigits(s) == s # <<>> /\ \A i \in 1..Len(s) : s[i] \in DOMAIN Digits

RECURSIVE DigitsValue(_)
DigitsValue(s) ==
    IF s = <<>> THEN 0
    ELSE 10 * DigitsValue(SubSeq(s, 1, Len(s) - 1)) + Digits[s[Len(s)]]

\* int(x): an int is returned as it is; a str is stripped, then an optional
\* sign and decimal digits, anything else raises ValueError
int(x) ==
    IF x.t = "int"
    THEN [raised |-> "None", value |-> x.v]
    ELSE LET s == strip(x.v)
             signed == s # <<>> /\ Head(s) \in {"+", "-"}
             body == IF signed THEN Tail(s) ELSE s
         IN  IF IsDigits(body)
             THEN [raised |-> "None",
                   value |-> IF signed /\ Head(s) = "-"
                             THEN 0 - DigitsValue(body)
                             ELSE DigitsValue(body)]
             ELSE [raised |-> "ValueError", value |-> 0]

----------------------------------------------------------------------------
(* datetime: a proleptic Gregorian day number and the seconds of the day. *)

IsLeap(y) == (y % 4 = 0) /\ ((y % 100 # 0) \/ (y % 400 = 0))

DaysInMonth(y, m) ==
    IF m = 2 THEN (IF IsLeap(y) THEN 29 ELSE 28)
    ELSE IF m \in {4, 6, 9, 11} THEN 30 ELSE 31

RECURSIVE DaysBeforeMonth(_, _)
DaysBeforeMonth(y, m) ==
    IF m = 1 THEN 0 ELSE DaysBeforeMonth(y, m - 1) + DaysInMonth(y, m - 1)

DaysBeforeYear(y) ==
    (y - 1) * 365 + ((y - 1) \div 4) - ((y - 1) \div 100) + ((y - 1) \div 400)

\* datetime(y, m, d, hh, mm, ss)
datetime(y, m, d, hh, mm, ss) ==
    PyDatetime(DaysBeforeYear(y) + DaysBeforeMonth(y, m) + d,
               (hh * 60 + mm) * 60 + ss)

\* a - b for two datetimes: a timedelta, normalised so 0 <= seconds < 86400
\* (so .days is the floor of the difference in days)
datetime_sub(a, b) ==
    LET total == (a.days - b.days) * SecondsPerDay + (a.secs - b.secs)
    IN  [t |-> "timedelta",
         days |-> IF total >= 0
                  THEN total \div SecondsPerDay
                  ELSE 0 - ((0 - total + SecondsPerDay - 1) \div SecondsPerDay),
         seconds |-> total % SecondsPerDay]

\* a + n seconds
datetime_add(a, n) ==
    LET total == a.secs + n
    IN  PyDatetime(a.days + (total \div SecondsPerDay), total % SecondsPerDay)

----------------------------------------------------------------------------
(* dateutil.parser.parse(timestr, ignoretz=True), for the timestamp forms  *)
(* WHOIS servers print: YYYY-MM-DD, optionally followed by "T" or a blank  *)
(* and HH:MM:SS, optionally followed by "Z" (dropped: ignoretz).  A string *)
(* that is no date raises ValueError.  For the empty string the installed  *)
(* python-dateutil decides: current releases raise ValueError ("String     *)
(* does not contain a date"), old ones return the default, today at 00:00. *)

ValidDate(y, m, d) == y >= 1 /\ m \in 1..12 /\ d >= 1 /\ d <= DaysInMonth(y, m)
ValidTime(hh, mm, ss) == hh \in 0..23 /\ mm \in 0..59 /\ ss \in 0..59

IsoDateShape(s) ==
    /\ Len(s) >= 10
    /\ IsDigits(SubSeq(s, 1, 4)) /\ s[5] = "-"
    /\ IsDigits(SubSeq(s, 6, 7)) /\ s[8] = "-"
    /\ IsDigits(SubSeq(s, 9, 10))

IsoTimeShape(s) ==
    /\ Len(s) \in {19, 20}
    /\ s[11] \in {"T", " "}
    /\ IsDigits(SubSeq(s, 12, 13)) /\ s[14] = ":"
    /\ IsDigits(SubSeq(s, 15, 16)) /\ s[17] = ":"
    /\ IsDigits(SubSeq(s, 18, 19))
    /\ (Len(s) = 20 => s[20] = "Z")

dateutil_parse(timestr, today, legacy) ==
    LET s == strip(timestr)
        y == DigitsValue(SubSeq(s, 1, 4))
        m == DigitsValue(SubSeq(s, 6, 7))
        d == DigitsValue(SubSeq(s, 9, 10))
        hh == DigitsValue(SubSeq(s, 12, 13))
        mm == DigitsValue(SubSeq(s, 15, 16))
        ss == DigitsValue(SubSeq(s, 18, 19))
        error == [raised |-> "ValueError", value |-> PyNone]
    IN  IF s = <<>>
        THEN IF legacy
             THEN [raised |-> "None", value |-> PyDatetime(today.days, 0)]
             ELSE error
        ELSE IF ~IsoDateShape(s) THEN error
        ELSE IF ~ValidDate(y, m, d) THEN error
        ELSE IF Len(s) = 10
             THEN [raised |-> "None", value |-> datetime(y, m, d, 0, 0, 0)]
        ELSE IF IsoTimeShape(s) /\ ValidTime(hh, mm, ss)
             THEN [raised |-> "None", value |-> datetime(y, m, d, hh, mm, ss)]
        ELSE error

----------------------------------------------------------------------------
(* parse_whois_data *)

\* any(s in line for s in strings)
AnyIn(strings, line) == \E k \in 1..Len(strings) : Contains(line, strings[k])

\* ParseLine with a field kept once it is set (a break after the first match).
ParseLine_FirstWins(line, acc, today, legacy) ==
    LET hit == AnyIn(EXPIRE_STRINGS, line) /\ acc.expiration_date.t # "datetime"
        parsed == dateutil_parse(partition(line, <<":", " ">>)[3], today, legacy)
        reghit == AnyIn(REGISTRAR_STRINGS, line) /\ acc.registrar = PyStr(S_Unknown)
    IN  IF hit /\ parsed.raised # "None"
        THEN [acc EXCEPT !.raised = parsed.raised]
        ELSE [raised |-> "None",
              expiration_date |-> IF hit THEN parsed.value ELSE acc.expiration_date,
              registrar |-> IF reghit
                            THEN PyStr(strip(split_sep(line, S_Registrar)[2]))
                            ELSE acc.registrar]

\* The body of the for loop, lines 103-108, on one line.
ParseLine(line, acc, today, legacy) ==
    LET hit == AnyIn(EXPIRE_STRINGS, line)
        parsed == dateutil_parse(partition(line, <<":", " ">>)[3], today, legacy)
        reghit == AnyIn(REGISTRAR_STRINGS, line)
    IN  IF hit /\ parsed.raised # "None"
        THEN [acc EXCEPT !.raised = parsed.raised]
        ELSE [raised |-> "None",
              expiration_date |-> IF hit THEN parsed.value ELSE acc.expiration_date,
              registrar |-> IF reghit
                            THEN PyStr(strip(split_sep(line, S_Registrar)[2]))
                            ELSE acc.registrar]

RECURSIVE ParseLines(_, _, _, _)
ParseLines(lines, acc, today, legacy) ==
    IF lines = <<>> \/ acc.raised # "None"
    THEN acc
    ELSE ParseLines(Tail(lines), ParseLine(Head(lines), acc, today, legacy),
                    today, legacy)

\* parse_whois_data raising when no label was found.
parse_whois_data_Raises(data, today, legacy) ==
    LET r == ParseLines(splitlines(data),
                        [raised |-> "None",
                         expiration_date |-> PyStr(S_Placeholder),
                         registrar |-> PyStr(S_Unknown)],
                        today, legacy)
    IN  IF r.raised = "None" /\ r.expiration_date.t # "datetime"
        THEN [r EXCEPT !.raised = "ParseError"]
        ELSE r

\* parse_whois_data with the registrar starting as the empty string.
parse_whois_data_NoDefault(data, today, legacy) ==
    ParseLines(splitlines(data),
               [raised |-> "None",
                expiration_date |-> PyStr(S_Placeholder),
                registrar |-> PyStr(<<>>)],
               today, legacy)

\* Returns [raised, expiration_date, registrar]; raised = "None" is a normal
\* return of the pair.
parse_whois_data(data, today, legacy) ==
    ParseLines(splitlines(data),
               [raised |-> "None",
                expiration_date |-> PyStr(S_Placeholder),
                registrar |-> PyStr(S_Unknown)],
               today, legacy)

----------------------------------------------------------------------------
(* calculate_expiration_days, check_expired *)

\* a < b as CPython 2 evaluates it: two ints by value; an int and a str by
\* type, and a number is smaller than any other object
Py2Less(a, b) ==
    IF a.t = "int" /\ b.t = "int" THEN a.v < b.v
    ELSE IF a.t = "int" THEN TRUE
    ELSE IF b.t = "int" THEN FALSE
    ELSE FALSE

\* calculate_expiration_days comparing with <= instead of <.
calculate_expiration_days_LessEq(expire_days, expiration_date_, clock) ==
    IF expiration_date_.t # "datetime"
    THEN [exit |-> TRUE, value |-> 0]
    ELSE LET domain_expire == datetime_sub(expiration_date_, clock)
         IN  IF expire_days.t = "int" /\ domain_expire.days <= expire_days.v
             THEN [exit |-> FALSE, value |-> domain_expire.days]
             ELSE [exit |-> FALSE, value |-> 0]

\* Returns [exit, value]: exit = TRUE is "Unable to calculate the expiration
\* days" and sys.exit(1), taken when the subtraction raises (the placeholder
\* str minus a datetime is a TypeError).
calculate_expiration_days(expire_days, expiration_date_, clock) ==
    IF expiration_date_.t # "datetime"
    THEN [exit |-> TRUE, value |-> 0]
    ELSE LET domain_expire == datetime_sub(expiration_date_, clock)
         IN  IF Py2Less(PyInt(domain_expire.days), expire_days)
             THEN [exit |-> FALSE, value |-> domain_expire.days]
             ELSE [exit |-> FALSE, value |-> 0]

\* Returns [raised, value]; int() of a threshold that is no number raises.
check_expired(expiration_days_, days_remaining_) ==
    LET d == int(PyInt(days_remaining_))
        e == int(expiration_days_)
    IN  IF e.raised # "None"
        THEN [raised |-> e.raised, value |-> 0]
        ELSE IF d.value < e.value
             THEN [raised |-> "None", value |-> days_remaining_]
             ELSE [raised |-> "None", value |-> 0]

\* "if x:" for an int
Truthy(n) == n # 0

----------------------------------------------------------------------------
(* Inputs. *)

S_DateA == <<"2","0","2","0","-","0","2","-","2","6","T","1","2",":","0","0",":","0","0","Z">>
S_DateB == <<"2","0","2","0","-","0","1","-","2","8">>
S_DateC == <<"2","0","2","0","-","0","1","-","2","0"," ","0","4",":","0","0",":","0","0">>
S_Garbage == <<"n","/","a">>
S_Acme == <<"A","c","m","e"," ","I","n","c",".">>
S_Zed == <<"Z","e","d">>
S_DomainNameLine == <<"D","o","m","a","i","n"," ","N","a","m","e",":"," ","a",".","c","o","m">>
S_ColonSpace == <<":"," ">>
S_Space == <<" ">>
S_FileLine1 == <<"a",".","c","o","m"," ","1","0","\n">>
S_FileLine2 == <<"b",".","o","r","g","\t","9","0","\n">>
S_FileLine3 == <<"c",".","n","e","t"," ","x","\n">>
S_FileLine4 == <<"\n">>
S_FileLine5 == <<"d",".","i","o","\n">>
S_FileLine6 == <<"e",".","s","e"," ","1","0"," ","z","\n">>
S_CliDomain == <<"a",".","c","o","m">>

\* The clock when the program starts: 2020-01-27 12:00:00.
StartTime == datetime(2020, 1, 27, 12, 0, 0)

RangeOf(f) == { f[i] : i \in DOMAIN f }

SeqsUpTo(S, n) == UNION { [1..k -> S] : k \in 0..n }

\* Lines of a WHOIS answer: every label with the date after ": " and after a
\* blank; a label with and one without a colon directly followed by the
\* date; a second date; a date that is none; registrar lines (one with
\* nothing after the label); a line with neither.
ExpireLines ==
    { label \o sep \o S_DateA :
        label \in RangeOf(EXPIRE_STRINGS), sep \in {S_ColonSpace, S_Space} }
    \cup { S_Expiration \o S_DateA,
           S_ExpiryDate \o S_DateA,
           S_Expiration \o S_Space \o S_DateB,
           S_expires \o S_Space \o S_Garbage }

RegistrarLines ==
    { S_Registrar \o S_Space \o S_Zed,
      S_Registrar \o S_Space \o S_Unknown,
      S_Registrar }

WhoisLines == ExpireLines \cup RegistrarLines \cup { S_DomainNameLine }

RECURSIVE JoinLines(_)
JoinLines(lines) ==
    IF lines = <<>> THEN <<>>
    ELSE Head(lines) \o <<"\n">> \o JoinLines(Tail(lines))

WhoisTexts == { JoinLines(ls) : ls \in SeqsUpTo(WhoisLines, MaxWhoisLines) }

\* What whois may print for a domain in a run of main().
WhoisResponses ==
    { JoinLines(<< S_Registrar \o S_Space \o S_Acme,
                   S_RegistryExpiryDate \o S_Space \o S_DateA >>),
      JoinLines(<< S_Expiration \o S_Space \o S_DateB >>),
      JoinLines(<< S_expires \o S_Space \o S_DateC >>),
      JoinLines(<< S_DomainNameLine >>),
      JoinLines(<< S_ExpiryDate \o S_ColonSpace \o S_Garbage >>),
      JoinLines(<< S_ExpiryDate \o S_Space \o S_DateA >>) }

FileLines == { S_FileLine1, S_FileLine2, S_FileLine3, S_FileLine4,
               S_FileLine5, S_FileLine6 }

DefaultExpireDays == 10000
DefaultSleepTime == 60

\* processcli(): the dicts argparse can return, for the options that matter.
ConfOptions ==
    [ domainfile : BOOLEAN,
      domainname : { PyNone, PyStr(S_CliDomain) },
      email : BOOLEAN,
      interactive : BOOLEAN,
      expiredays : { 10, 90, DefaultExpireDays },
      sleeptime : { DefaultSleepTime } ]

----------------------------------------------------------------------------
(* parse_whois_data on its own. *)

InitParse ==
    /\ pc = "parse"
    /\ whois_data \in WhoisTexts
    /\ dateutil_legacy \in BOOLEAN
    /\ now = StartTime
    /\ conf_options = PyNone
    /\ domainfile = <<>>
    /\ lineno = 0
    /\ domainname = PyNone
    /\ expiration_days = PyNone
    /\ expiration_date = PyNone
    /\ registrar = PyNone
    /\ days_remaining = 0
    /\ exit_status = -1
    /\ raised = "None"
    /\ events = <<>>

Parse ==
    /\ pc = "parse"
    /\ LET r == parse_whois_data(whois_data, now, dateutil_legacy)
       IN  \/ /\ r.raised = "None"
              /\ expiration_date' = r.expiration_date
              /\ registrar' = r.registrar
              /\ pc' = "returned"
              /\ UNCHANGED raised
           \/ /\ r.raised # "None"
              /\ raised' = r.raised
              /\ pc' = "raised"
              /\ UNCHANGED << expiration_date, registrar >>
    /\ UNCHANGED << conf_options, domainfile, lineno, now, dateutil_legacy,
                    whois_data, domainname, expiration_days, days_remaining,
                    exit_status, events >>

NextParse == Parse

SpecParse == InitParse /\ [][NextParse]_vars

----------------------------------------------------------------------------
(* Properties of parse_whois_data, checked under SpecParse. *)

InputLines == splitlines(whois_data)

\* the indices of the lines that carry an expiration label, a registrar label
LabelIdxOf(lines) == { i \in 1..Len(lines) : AnyIn(EXPIRE_STRINGS, lines[i]) }
RegistrarIdxOf(lines) == { i \in 1..Len(lines) : Contains(lines[i], S_Registrar) }
LabelIdx == LabelIdxOf(InputLines)
RegistrarIdx == RegistrarIdxOf(InputLines)

Min(S) == CHOOSE x \in S : \A y \in S : x <= y
Max(S) == CHOOSE x \in S : \A y \in S : x >= y

\* what the parser makes of one line on its own
Alone(line) == parse_whois_data(line \o <<"\n">>, now, dateutil_legacy)

\* the text that follows the first "Registrar:" of a line, without the
\* blanks around it
RegistrarText(line) == strip(partition(line, S_Registrar)[3])

DateAValue == datetime(2020, 2, 26, 12, 0, 0)

\* C1 as stated: when parse_whois_data returns and several lines carry an
\* expiration label (several carry "Registrar:"), the returned date
\* (registrar) is that of the FIRST such line.
C1_FirstMatchWins ==
    pc = "returned" =>
        /\ Cardinality(LabelIdx) >= 2 =>
              expiration_date = Alone(InputLines[Min(LabelIdx)]).expiration_date
        /\ Cardinality(RegistrarIdx) >= 2 =>
              registrar = PyStr(RegistrarText(InputLines[Min(RegistrarIdx)]))

\* C1 amended: when parse_whois_data returns, the returned date is that of
\* the LAST line that carries an expiration label and the returned registrar
\* is the text of the LAST line that carries "Registrar:".
C1_LastMatchWins ==
    pc = "returned" =>
        /\ LabelIdx # {} =>
              expiration_date = Alone(InputLines[Max(LabelIdx)]).expiration_date
        /\ RegistrarIdx # {} =>
              registrar = PyStr(RegistrarText(InputLines[Max(RegistrarIdx)]))

\* Two label lines with different dates and two registrar lines with
\* different names have been parsed; the later ones were returned.
C1_Witness ==
    /\ pc = "returned"
    /\ whois_data = JoinLines(<< S_Expiration \o S_Space \o S_DateB,
                                 S_RegistryExpiryDate \o S_Space \o S_DateA >>)
    /\ expiration_date = DateAValue

LabelThenDateA ==
    /\ Cardinality(LabelIdx) = 1
    /\ \E label \in RangeOf(EXPIRE_STRINGS), sep \in {S_ColonSpace, S_Space, <<>>} :
          InputLines[Min(LabelIdx)] = label \o sep \o S_DateA

\* C5: a text whose only label-bearing line is a known label followed by a
\* valid date is parsed to exactly that date, for every label and with or
\* without the separator ": ".
C5_ExactDate ==
    (pc # "parse" /\ LabelThenDateA) =>
        (pc = "returned" /\ expiration_date = DateAValue)

\* C6: when parse_whois_data returns for a text without a "Registrar:" line
\* the registrar is "Unknown"; with such a line it is "Unknown" only if that
\* is the text of a "Registrar:" line.
C6_RegistrarDefault ==
    pc = "returned" =>
        /\ RegistrarIdx = {} => registrar = PyStr(S_Unknown)
        /\ (RegistrarIdx # {} /\ registrar = PyStr(S_Unknown)) =>
              \E i \in RegistrarIdx : RegistrarText(InputLines[i]) = S_Unknown
        /\ registrar.t = "str"

C6_Witness ==
    /\ pc = "returned"
    /\ RegistrarIdx = {}
    /\ LabelIdx # {}
    /\ registrar = PyStr(S_Unknown)

----------------------------------------------------------------------------
(* calculate_expiration_days on its own. *)

DayOffsets == ((0 - MaxDayOffset - 1)..(MaxDayOffset + 1)) \cup {10, 30, 90}

EvalDates ==
    { PyDatetime(StartTime.days + k, s) :
        k \in DayOffsets, s \in {0, StartTime.secs, SecondsPerDay - 1} }

EvalThresholds ==
    { PyInt(n) : n \in ((0 - MaxDayOffset)..MaxDayOffset)
                         \cup {10, 90, DefaultExpireDays} }

InitEval ==
    /\ pc = "evaluate"
    /\ expiration_days \in EvalThresholds
    /\ expiration_date \in EvalDates \cup { PyStr(S_Placeholder) }
    /\ now \in { StartTime, PyDatetime(StartTime.days, 0) }
    /\ dateutil_legacy = FALSE
    /\ whois_data = <<>>
    /\ conf_options = PyNone
    /\ domainfile = <<>>
    /\ lineno = 0
    /\ domainname = PyNone
    /\ registrar = PyNone
    /\ days_remaining = 0
    /\ exit_status = -1
    /\ raised = "None"
    /\ events = <<>>

Evaluate ==
    /\ pc = "evaluate"
    /\ LET r == calculate_expiration_days(expiration_days, expiration_date, now)
       IN  \/ /\ ~r.exit
              /\ days_remaining' = r.value
              /\ pc' = "evaluated"
              /\ UNCHANGED exit_status
           \/ /\ r.exit
              /\ exit_status' = 1
              /\ pc' = "exited"
              /\ UNCHANGED days_remaining
    /\ UNCHANGED << conf_options, domainfile, lineno, now, dateutil_legacy,
                    whois_data, domainname, expiration_days, expiration_date,
                    registrar, raised, events >>

NextEval == Evaluate

SpecEval == InitEval /\ [][NextEval]_vars

\* The difference expiration_date - now in whole days, rounded down: the d
\* with d days <= difference < d + 1 days.
DayDifference ==
    LET diff == (expiration_date.days - now.days) * SecondsPerDay
                  + (expiration_date.secs - now.secs)
    IN  CHOOSE d \in -200..200 :
            d * SecondsPerDay <= diff /\ diff < (d + 1) * SecondsPerDay

\* C3: with an integer threshold the evaluator returns the day difference d
\* when d < threshold (d may be negative) and 0 otherwise; 30 days ahead
\* gives 0 with threshold 10 and 30 with threshold 90.
C3_Evaluator ==
    pc = "evaluated" =>
        /\ days_remaining = IF DayDifference < expiration_days.v
                            THEN DayDifference ELSE 0
        /\ (expiration_date = datetime_add(now, 30 * SecondsPerDay)
              /\ expiration_days.v = 10) => days_remaining = 0
        /\ (expiration_date = datetime_add(now, 30 * SecondsPerDay)
              /\ expiration_days.v = 90) => days_remaining = 30

\* An expired domain has been evaluated and a negative number returned.
C3_Witness ==
    /\ pc = "evaluated"
    /\ expiration_days.v = 10
    /\ expiration_date = PyDatetime(now.days - 1, 0)
    /\ now = StartTime
    /\ days_remaining = -2

----------------------------------------------------------------------------
(* main() *)

\* The dicts processcli() returns in the runs modelled: a domain file, a
\* single domain, or neither.
RunConfOptions ==
    { c \in ConfOptions :
        \/ c.domainfile /\ c.domainname = PyNone /\ c.expiredays = DefaultExpireDays
        \/ ~c.domainfile /\ c.domainname # PyNone
        \/ ~c.domainfile /\ c.domainname = PyNone
              /\ c.expiredays = DefaultExpireDays /\ ~c.email /\ ~c.interactive }

Batch == conf_options.domainfile
Single == ~Batch /\ conf_options.domainname # PyNone

\* the threshold the branch taken passes on: the str read from the file
\* (line 217) or the int of --expiredays (line 231)
Threshold == IF Batch THEN expiration_days ELSE PyInt(conf_options.expiredays)

Event(name) == [e |-> name, line |-> lineno, days |-> 0, failed |-> FALSE]

\* the process ends: sys.exit(status), or an exception nobody catches
\* (a traceback, exit status 1)
Exit(status, exc, name) ==
    /\ pc' = "exited"
    /\ exit_status' = status
    /\ raised' = exc
    /\ events' = Append(events, Event(name))

Init ==
    /\ pc = "main"
    /\ conf_options \in RunConfOptions
    /\ domainfile \in IF conf_options.domainfile
                      THEN SeqsUpTo(FileLines, MaxFileLines)
                      ELSE { <<>> }
    /\ dateutil_legacy \in BOOLEAN
    /\ now = StartTime
    /\ whois_data = <<>>
    /\ lineno = 0
    /\ domainname = PyNone
    /\ expiration_days = PyNone
    /\ expiration_date = PyNone
    /\ registrar = PyNone
    /\ days_remaining = 0
    /\ exit_status = -1
    /\ raised = "None"
    /\ events = <<>>

\* lines 201-207 and 229: the heading, then the branch on the options
Main ==
    /\ pc = "main"
    /\ events' = IF conf_options.interactive
                 THEN Append(events, Event("print_heading"))
                 ELSE events
    /\ \/ /\ Batch
          /\ pc' = "for"
          /\ UNCHANGED << domainname, exit_status >>
       \/ /\ Single
          /\ domainname' = conf_options.domainname
          /\ pc' = "query"
          /\ UNCHANGED exit_status
       \/ /\ ~Batch /\ ~Single
          /\ pc' = "exited"
          /\ exit_status' = 0
          /\ UNCHANGED domainname
    /\ UNCHANGED << conf_options, domainfile, lineno, now, dateutil_legacy,
                    whois_data, expiration_days, expiration_date, registrar,
                    days_remaining, raised >>

\* ForLine skipping a line it cannot split (continue instead of sys.exit).
ForLine_SkipBadLine ==
    /\ pc = "for"
    /\ \/ /\ lineno = Len(domainfile)
          /\ pc' = "exited"
          /\ exit_status' = 0
          /\ UNCHANGED << lineno, domainname, expiration_days, raised, events >>
       \/ /\ lineno < Len(domainfile)
          /\ lineno' = lineno + 1
          /\ LET fields == split_ws(domainfile[lineno + 1])
             IN  \/ /\ Len(fields) = 2
                    /\ domainname' = PyStr(fields[1])
                    /\ expiration_days' = PyStr(fields[2])
                    /\ pc' = "query"
                    /\ UNCHANGED << exit_status, raised, events >>
                 \/ /\ Len(fields) # 2
                    /\ pc' = "for"
                    /\ events' = Append(events, [Event("unable_to_parse_file")
                                                   EXCEPT !.line = lineno + 1])
                    /\ UNCHANGED << domainname, expiration_days, raised,
                                    exit_status >>
    /\ UNCHANGED << conf_options, domainfile, now, dateutil_legacy, whois_data,
                    expiration_date, registrar, days_remaining >>

\* lines 209-214: the next line of the file, split into its two fields
ForLine ==
    /\ pc = "for"
    /\ \/ /\ lineno = Len(domainfile)
          /\ pc' = "exited"
          /\ exit_status' = 0
          /\ UNCHANGED << lineno, domainname, expiration_days, raised, events >>
       \/ /\ lineno < Len(domainfile)
          /\ lineno' = lineno + 1
          /\ LET fields == split_ws(domainfile[lineno + 1])
             IN  \/ /\ Len(fields) = 2
                    /\ domainname' = PyStr(fields[1])
                    /\ expiration_days' = PyStr(fields[2])
                    /\ pc' = "query"
                    /\ UNCHANGED << exit_status, raised, events >>
                 \/ /\ Len(fields) # 2
                    /\ pc' = "exited"
                    /\ exit_status' = 1
                    /\ events' = Append(events, [Event("unable_to_parse_file")
                                                   EXCEPT !.line = lineno + 1])
                    /\ UNCHANGED << domainname, expiration_days, raised >>
    /\ UNCHANGED << conf_options, domainfile, now, dateutil_legacy, whois_data,
                    expiration_date, registrar, days_remaining >>

\* make_whois_query: run whois, read what it prints, parse it
MakeWhoisQuery ==
    /\ pc = "query"
    /\ \/ /\ Exit(1, "None", "unable_to_popen")
          /\ UNCHANGED << whois_data, expiration_date, registrar >>
       \/ \E data \in WhoisResponses :
             LET r == parse_whois_data(data, now, dateutil_legacy)
                 ev == [Event("query") EXCEPT
                          !.failed = r.raised # "None"
                                       \/ r.expiration_date.t # "datetime"]
             IN  /\ whois_data' = data
                 /\ \/ /\ r.raised = "None"
                       /\ expiration_date' = r.expiration_date
                       /\ registrar' = r.registrar
                       /\ pc' = "calculate"
                       /\ events' = Append(events, ev)
                       /\ UNCHANGED << exit_status, raised >>
                    \/ /\ r.raised # "None"
                       /\ pc' = "exited"
                       /\ exit_status' = 1
                       /\ raised' = r.raised
                       /\ events' = Append(events, ev)
                       /\ UNCHANGED << expiration_date, registrar >>
    /\ UNCHANGED << conf_options, domainfile, lineno, now, dateutil_legacy,
                    domainname, expiration_days, days_remaining >>

\* lines 217 and 231
CalculateExpirationDays ==
    /\ pc = "calculate"
    /\ LET r == calculate_expiration_days(Threshold, expiration_date, now)
       IN  \/ /\ ~r.exit
              /\ days_remaining' = r.value
              /\ pc' = "check"
              /\ events' = Append(events, Event("calculate"))
              /\ UNCHANGED << exit_status, raised >>
           \/ /\ r.exit
              /\ Exit(1, "None", "unable_to_calculate")
              /\ UNCHANGED days_remaining
    /\ UNCHANGED << conf_options, domainfile, lineno, now, dateutil_legacy,
                    whois_data, domainname, expiration_days, expiration_date,
                    registrar >>

\* lines 219-220 and 233-234: check_expired, then domain_expire_notify, which
\* sends the mail when --email is set; the SMTP server may refuse
CheckExpired ==
    /\ pc = "check"
    /\ LET r == check_expired(Threshold, days_remaining)
           notify == [Event("notify") EXCEPT !.days = days_remaining]
           mail == [Event("mail") EXCEPT !.days = days_remaining]
       IN  \/ /\ r.raised # "None"
              /\ Exit(1, r.raised, "traceback")
           \/ /\ r.raised = "None" /\ ~Truthy(r.value)
              /\ pc' = "print"
              /\ UNCHANGED << exit_status, raised, events >>
           \/ /\ r.raised = "None" /\ Truthy(r.value) /\ ~conf_options.email
              /\ pc' = "print"
              /\ events' = Append(events, notify)
              /\ UNCHANGED << exit_status, raised >>
           \/ /\ r.raised = "None" /\ Truthy(r.value) /\ conf_options.email
              /\ pc' = "print"
              /\ events' = events \o << notify, mail >>
              /\ UNCHANGED << exit_status, raised >>
           \/ /\ r.raised = "None" /\ Truthy(r.value) /\ conf_options.email
              /\ pc' = "exited"
              /\ exit_status' = 1
              /\ raised' = "socket.error"
              /\ events' = Append(events, notify)
    /\ UNCHANGED << conf_options, domainfile, lineno, now, dateutil_legacy,
                    whois_data, domainname, expiration_days, expiration_date,
                    registrar, days_remaining >>

\* lines 222-223 and 236-237
PrintDomain ==
    /\ pc = "print"
    /\ events' = IF conf_options.interactive
                 THEN Append(events, [Event("print_domain")
                                        EXCEPT !.days = days_remaining])
                 ELSE events
    /\ pc' = "sleep"
    /\ UNCHANGED << conf_options, domainfile, lineno, now, dateutil_legacy,
                    whois_data, domainname, expiration_days, expiration_date,
                    registrar, days_remaining, exit_status, raised >>

\* Sleep only after the last line: the sleep moved out of the loop.
Sleep_AfterLoop ==
    /\ pc = "sleep"
    /\ \/ /\ Batch
          /\ pc' = "for"
          /\ UNCHANGED << exit_status, now, events >>
       \/ /\ ~Batch
          /\ now' = datetime_add(now, conf_options.sleeptime)
          /\ events' = Append(events, Event("sleep"))
          /\ pc' = "exited"
          /\ exit_status' = 0
    /\ UNCHANGED << conf_options, domainfile, lineno, dateutil_legacy,
                    whois_data, domainname, expiration_days, expiration_date,
                    registrar, days_remaining, raised >>

\* lines 227 and 241: time.sleep(sleeptime), then the next line of the file
\* or the end of main
Sleep ==
    /\ pc = "sleep"
    /\ now' = datetime_add(now, conf_options.sleeptime)
    /\ events' = Append(events, Event("sleep"))
    /\ \/ /\ Batch
          /\ pc' = "for"
          /\ UNCHANGED exit_status
       \/ /\ ~Batch
          /\ pc' = "exited"
          /\ exit_status' = 0
    /\ UNCHANGED << conf_options, domainfile, lineno, dateutil_legacy,
                    whois_data, domainname, expiration_days, expiration_date,
                    registrar, days_remaining, raised >>

Next ==
    \/ Main
    \/ ForLine
    \/ MakeWhoisQuery
    \/ CalculateExpirationDays
    \/ CheckExpired
    \/ PrintDomain
    \/ Sleep

Spec == Init /\ [][Next]_vars

----------------------------------------------------------------------------
(* Properties of main(), checked under Spec. *)

EventIdx(name) == { i \in 1..Len(events) : events[i].e = name }

Ended == pc = "exited"

\* C4: in batch mode a parse failure for one domain (no expiration label in
\* its WHOIS text, or a date that is none) does not end the run: while a
\* domain is listed on the next line of the file, the run has not ended at
\* the line whose WHOIS text failed to parse.
C4_BatchSurvivesParseFailure ==
    ( /\ Batch /\ Ended
      /\ lineno < Len(domainfile)
      /\ Len(split_ws(domainfile[lineno + 1])) = 2 ) =>
        ~ \E i \in EventIdx("query") :
              events[i].line = lineno /\ events[i].failed

\* C7: in batch mode the k-th WHOIS query is for the k-th line of the file,
\* and between two queries lie the evaluation and the sleep of the earlier
\* one, with its notification and its print before that sleep; when a query
\* starts the clock has advanced by one sleeptime per earlier line.
C7_OneAtATime ==
    Batch =>
        /\ \A i \in EventIdx("query") :
              events[i].line = Cardinality({ j \in EventIdx("query") : j <= i })
        /\ \A i, j \in EventIdx("query") :
              i < j =>
                 \E c \in EventIdx("calculate"), s \in EventIdx("sleep") :
                    /\ i < c /\ c < s /\ s < j
                    /\ events[c].line = events[i].line
                    /\ events[s].line = events[i].line
                    /\ \A k \in 1..Len(events) :
                          (events[k].line = events[i].line /\ k # s) =>
                              (k < s /\ (events[k].e # "query" => i < k))
        /\ pc = "query" =>
              /\ Cardinality(EventIdx("sleep")) = lineno - 1
              /\ now = datetime_add(StartTime, (lineno - 1) * conf_options.sleeptime)

\* A second query has started after a mail was sent for the first domain.
C7_Witness ==
    /\ Batch
    /\ Cardinality(EventIdx("query")) = 2
    /\ \E m \in EventIdx("mail") : events[m].line = 1

\* C8: with --email a notification is triggered for a domain exactly when
\* its day difference is below its threshold, 0 days and negative days
\* included; without --email no mail is sent; no domain is notified twice.
C8_NotifyIffBelowThreshold ==
    /\ (pc = "print" /\ conf_options.email) =>
          ((\E i \in EventIdx("notify") : events[i].line = lineno)
             <=> DayDifference < int(Threshold).value)
    /\ ~conf_options.email => EventIdx("mail") = {}
    /\ \A i, j \in EventIdx("mail") : events[i].line = events[j].line => i = j

\* C9: for the same expiration date, clock and threshold, the batch branch
\* hands print_domain the number the single-domain branch would, and takes
\* the same decision to notify.
C9_ModesAgree ==
    (Batch /\ pc = "print") =>
        LET threshold == PyInt(int(expiration_days).value)
            single == calculate_expiration_days(threshold, expiration_date, now).value
        IN  /\ days_remaining = single
            /\ Truthy(check_expired(expiration_days, days_remaining).value)
                 <=> Truthy(check_expired(threshold, single).value)

\* C10: a line of the domain file that does not split into two fields ends
\* the run with exit status 1 when it is read: nothing is queried, notified
\* or printed for it, and no later line is read.
C10_BadLineExits ==
    Batch =>
        \A i \in 1..lineno :
            Len(split_ws(domainfile[i])) # 2 =>
                /\ lineno = i
                /\ pc = "exited"
                /\ exit_status = 1
                /\ raised = "None"
                /\ \A k \in 1..Len(events) :
                      events[k].line = i =>
                          (k = Len(events) /\ events[k].e = "unable_to_parse_file")

\* The run has ended at a bad second line after a mail for the first.
C10_Witness ==
    /\ Batch
    /\ lineno = 2
    /\ Len(split_ws(domainfile[2])) # 2
    /\ pc = "exited"
    /\ exit_status = 1
    /\ \E m \in EventIdx("mail") : events[m].line = 1

====
